---- MODULE Spec2Model ----
(***************************************************************************)
(* Model of the yagm session engine: GitService (src/main/gitService.ts)   *)
(* and the cherry-pick dialog's single-flight lock                         *)
(* (src/renderer/components/CherryPickDialog.tsx).                         *)
(*                                                                         *)
(* Every asynchronous handler is cut at its awaits: one action is one      *)
(* backend call completing plus the synchronous code that follows it, up   *)
(* to and including the issue of the next backend call.  `this.git` is     *)
(* read when a call is issued, so the handle a pending call runs against   *)
(* is kept in the invocation's record (field `on`).  A call on a null      *)
(* handle throws a TypeError synchronously and never reaches the backend.  *)
(***************************************************************************)
EXTENDS Integers, Sequences, FiniteSets, TLC

\* ------------------------------------------------------------------ bounds
MaxHashes == 2
MaxLines == 4
MaxScanPaths == 2
MaxPage == 2

\* ------------------------------------------------------------- input sets
NULL == "null"
Repos == {"r1", "r2"}
NotARepo == "plain"
Paths == Repos \cup {NotARepo}
Branches == {"main", "feat"}
Dialogs == {"app", "main"}
AllHashes == <<"c2", "c1", "c3", "c4">>

\* The commit lists a dialog can be opened with: selectedCommits, non-empty,
\* in an order that is not the hashes' sorted order.
RequestLists == {SubSeq(AllHashes, 1, n) : n \in 1..MaxHashes}

\* The paths the session operations of Spec are called with: one repository
\* and one directory that is none.
OpenPaths == {"r1", NotARepo}

\* simple-git StatusResult values of the working tree.  getStatus reads
\* staged, modified, deleted and not_added; the backend lists the paths with
\* merge conflicts in `conflicted`.  The dirty trees hold staged and local
\* changes, none of them a merge conflict.
CleanTree ==
  [staged |-> <<>>, modified |-> <<>>, deleted |-> <<>>, not_added |-> <<>>,
   conflicted |-> <<>>]
OverlapTree ==
  [staged |-> <<"a">>, modified |-> <<"a", "b">>, deleted |-> <<>>,
   not_added |-> <<"u">>, conflicted |-> <<>>]
UnstagedTree ==
  [staged |-> <<>>, modified |-> <<"b">>, deleted |-> <<"d">>, not_added |-> <<>>,
   conflicted |-> <<>>]
Trees == {CleanTree, OverlapTree, UnstagedTree}

\* ------------------------------------------------------------------ state
VARIABLES
  git,          \* GitService.git: the repository the handle points at, or NULL
  currentPath,  \* GitService.currentPath
  initPending,  \* path of an initRepository awaiting git.init(), or NULL
  head,         \* backend: checked-out branch of each repository
  wt,           \* backend: working-tree status of each repository
  isCherryPickingInProgress,  \* the renderer's module-level lock
  dlg,          \* per dialog instance: loading, result, ignored
  cp,           \* per dialog instance: its cherryPickCommits invocation
  reply         \* the last reply a caller kept: operation, argument, value

vars == <<git, currentPath, initPending, head, wt, isCherryPickingInProgress,
          dlg, cp, reply>>

\* ---------------------------------------------------------------- helpers
InSeq(x, s) == \E k \in 1..Len(s) : s[k] = x

IsPrefix(s, t) == Len(s) <= Len(t) /\ SubSeq(t, 1, Len(s)) = s

EmptyStatus == [staged |-> <<>>, unstaged |-> <<>>, untracked |-> <<>>]

\* getStatus's mapping of a backend StatusResult.
StatusOf(s) ==
  [staged |-> s.staged,
   unstaged |-> SelectSeq(s.modified \o s.deleted,
                          LAMBDA f : ~InSeq(f, s.staged)),
   untracked |-> s.not_added]

\* const result: CherryPickResult = { success: true, conflicts: [], appliedCommits: [] }
\* errorType and errorMessage are optional fields that are never assigned.
NewResult(ok) ==
  [success |-> ok, conflicts |-> <<>>, appliedCommits |-> <<>>,
   errorType |-> "none"]

IdleCp ==
  [pc |-> "idle", on |-> NULL, hashes |-> <<>>, target |-> "",
   noCommit |-> FALSE, squash |-> FALSE, currentBranch |-> "", i |-> 0,
   result |-> NewResult(TRUE), trace |-> <<>>]

\* useState<CherryPickResult | null>(null): <<>> is null, <<r>> a result
IdleDlg == [loading |-> FALSE, result |-> <<>>, ignored |-> FALSE]

\* One call expression `this.git.<op>(arg)` evaluated by an invocation: the
\* repository it ran against (NULL: TypeError before the backend), whether it
\* succeeded, and the branch it created a commit on ("" when it created none:
\* git commits onto the branch checked out when the call runs).
Call(op, arg, r, ok, commit) ==
  [op |-> op, arg |-> arg, on |-> r, ok |-> ok,
   commitOn |-> IF commit THEN head[r] ELSE "", st |-> EmptyStatus]

\* The getStatus() call of the per-commit catch, with the GitStatus it returned.
StatusCall(r, ok, st) ==
  [op |-> "status", arg |-> "", on |-> r, ok |-> ok, commitOn |-> "", st |-> st]

Log(c, e) == [c EXCEPT !.trace = Append(@, e)]

\* ------------------------------------------- cherryPickCommits, continuations
\* return result
Returned(c) == [c EXCEPT !.pc = "returned", !.on = NULL]

\* Mutant: the restore is skipped once the cherry-pick has failed.
IssueRestore_OnlyOnSuccess(c, g) ==
  IF c.currentBranch # c.target /\ c.result.success
  THEN IF g # NULL
       THEN [c EXCEPT !.pc = "restore", !.on = g]
       ELSE Returned(Log(c, Call("checkout", c.currentBranch, NULL, FALSE, FALSE)))
  ELSE Returned(c)

\* if (currentBranch !== targetBranch) { try { await this.git.checkout(currentBranch) } catch {} }
IssueRestore(c, g) ==
  IF c.currentBranch # c.target
  THEN IF g # NULL
       THEN [c EXCEPT !.pc = "restore", !.on = g]
       ELSE Returned(Log(c, Call("checkout", c.currentBranch, NULL, FALSE, FALSE)))
  ELSE Returned(c)

\* Mutant: the outer catch returns the failed result at once.
OuterCatch_Return(c, g) == Returned([c EXCEPT !.result.success = FALSE])

\* catch (error) { result.success = false }
OuterCatch(c, g) == IssueRestore([c EXCEPT !.result.success = FALSE], g)

\* Mutant: the squash commit is made whatever became of the applies.
SquashWanted_AfterFailure(c) == c.squash /\ Len(c.hashes) > 1 /\ ~c.noCommit

\* if (options.squash && commitHashes.length > 1 && result.success && !options.noCommit)
SquashWanted(c) ==
  c.squash /\ Len(c.hashes) > 1 /\ c.result.success /\ ~c.noCommit

IssueSquash(c, g) ==
  IF SquashWanted(c)
  THEN IF g # NULL
       THEN [c EXCEPT !.pc = "squash", !.on = g]
       ELSE OuterCatch(Log(c, Call("commit", "squash", NULL, FALSE, FALSE)), g)
  ELSE IssueRestore(c, g)

\* for (const commitHash of commitHashes) { try { await this.git.raw(['cherry-pick', ...]) ...
\* On a null handle the call throws, getStatus() returns the empty status
\* without a backend call and the error is rethrown to the outer catch.
IssueApply(c, g) ==
  IF c.i <= Len(c.hashes)
  THEN IF g # NULL
       THEN [c EXCEPT !.pc = "apply", !.on = g]
       ELSE OuterCatch(
              Log(c, Call("cherry-pick", c.hashes[c.i], NULL, FALSE, FALSE)), g)
  ELSE IssueSquash(c, g)

\* if (switchedBranch) { await this.git.checkout(targetBranch) }
IssueCheckout(c, g) ==
  IF c.currentBranch # c.target
  THEN IF g # NULL
       THEN [c EXCEPT !.pc = "checkout", !.on = g]
       ELSE OuterCatch(Log(c, Call("checkout", c.target, NULL, FALSE, FALSE)), g)
  ELSE IssueApply([c EXCEPT !.i = 1], g)

\* const status = await this.getStatus()    (inside the per-commit catch)
IssueStatus(c, g) ==
  IF g # NULL
  THEN [c EXCEPT !.pc = "status", !.on = g]
  ELSE OuterCatch(c, g)

\* Mutant: `continue` instead of `break` after a conflict.
AfterStatus_NoBreak(c, st, g) ==
  IF Len(st.unstaged) > 0 \/ Len(st.staged) > 0
  THEN IssueApply([c EXCEPT !.result.conflicts = st.unstaged \o st.staged,
                            !.result.success = FALSE,
                            !.i = @ + 1], g)
  ELSE OuterCatch(c, g)

\* Mutant: only staged paths count as a conflict.
AfterStatus_StagedOnly(c, st, g) ==
  IF Len(st.staged) > 0
  THEN IssueSquash([c EXCEPT !.result.conflicts = st.staged,
                             !.result.success = FALSE], g)
  ELSE OuterCatch(c, g)

\* Mutant: an apply that failed on a clean working tree is issued again.
AfterStatus_Retry(c, st, g) ==
  IF Len(st.unstaged) > 0 \/ Len(st.staged) > 0
  THEN IssueSquash([c EXCEPT !.result.conflicts = st.unstaged \o st.staged,
                             !.result.success = FALSE], g)
  ELSE IF Len(c.trace) < 8 THEN IssueApply(c, g) ELSE OuterCatch(c, g)

\* Mutant: the conflict is recorded but success is left as it was.
AfterStatus_KeepsSuccess(c, st, g) ==
  IF Len(st.unstaged) > 0 \/ Len(st.staged) > 0
  THEN IssueSquash([c EXCEPT !.result.conflicts = st.unstaged \o st.staged], g)
  ELSE OuterCatch(c, g)

\* if (status.unstaged.length > 0 || status.staged.length > 0) {...break} else throw error
AfterStatus(c, st, g) ==
  IF Len(st.unstaged) > 0 \/ Len(st.staged) > 0
  THEN IssueSquash([c EXCEPT !.result.conflicts = st.unstaged \o st.staged,
                             !.result.success = FALSE], g)
  ELSE OuterCatch(c, g)

\* result.appliedCommits.push(commitHash), then the next iteration
AfterApplyOk(c, g) ==
  IssueApply([c EXCEPT !.result.appliedCommits = Append(@, c.hashes[c.i]),
                       !.i = @ + 1], g)

\* ------------------------------------------------------ cherry-pick dialog
\* Mutant: the lock is taken but never tested.
HandleCherryPick_NoLock(d) ==
  /\ ~dlg[d].loading
  /\ dlg[d].result = <<>>
  /\ isCherryPickingInProgress' = TRUE
  /\ dlg' = [dlg EXCEPT ![d] = [loading |-> TRUE, result |-> <<>>,
                                ignored |-> FALSE]]
  /\ \E hs \in RequestLists, t \in Branches, nc \in BOOLEAN, sq \in BOOLEAN :
       cp' = [cp EXCEPT ![d] = [IdleCp EXCEPT !.pc = "invoked", !.hashes = hs,
                                              !.target = t, !.noCommit = nc,
                                              !.squash = sq]]
  /\ UNCHANGED <<git, currentPath, initPending, reply, head, wt>>

\* Mutant: the warning is logged but the early return is missing.
HandleCherryPick_NoReturn(d) ==
  /\ ~dlg[d].loading
  /\ dlg[d].result = <<>>
  /\ \A e \in Dialogs \ {d} : dlg[e].result = <<>>
  /\ isCherryPickingInProgress' = TRUE
  /\ dlg' = [dlg EXCEPT ![d] = [loading |-> TRUE, result |-> <<>>,
                                ignored |-> isCherryPickingInProgress]]
  /\ \E hs \in RequestLists, t \in Branches, nc \in BOOLEAN, sq \in BOOLEAN :
       cp' = [cp EXCEPT ![d] = [IdleCp EXCEPT !.pc = "invoked", !.hashes = hs,
                                              !.target = t, !.noCommit = nc,
                                              !.squash = sq]]
  /\ UNCHANGED <<git, currentPath, initPending, reply, head, wt>>

\* handleCherryPick: the click is dropped while the lock is held, otherwise
\* the lock is taken and onCherryPick is invoked over IPC.  The button exists
\* only while the dialog shows no result and is not loading.  (Bound: a
\* cherry-pick is started only while no other dialog instance still displays
\* a result; a displayed result is read by nothing but its own dialog.)
HandleCherryPick(d) ==
  /\ ~dlg[d].loading
  /\ dlg[d].result = <<>>
  /\ \A e \in Dialogs \ {d} : dlg[e].result = <<>>
  /\ IF isCherryPickingInProgress
     THEN /\ dlg' = [dlg EXCEPT ![d].ignored = TRUE]
          /\ UNCHANGED <<isCherryPickingInProgress, cp>>
     ELSE /\ isCherryPickingInProgress' = TRUE
          /\ dlg' = [dlg EXCEPT ![d] = [loading |-> TRUE, result |-> <<>>,
                                        ignored |-> FALSE]]
          /\ \E hs \in RequestLists, t \in Branches, nc \in BOOLEAN,
                sq \in BOOLEAN :
               cp' = [cp EXCEPT ![d] = [IdleCp EXCEPT !.pc = "invoked",
                                                      !.hashes = hs,
                                                      !.target = t,
                                                      !.noCommit = nc,
                                                      !.squash = sq]]
  /\ UNCHANGED <<git, currentPath, initPending, reply, head, wt>>

\* Mutant: the finally block does not release the lock.
DialogReceive_KeepsLock(d) ==
  /\ cp[d].pc = "returned"
  /\ dlg' = [dlg EXCEPT ![d] = [loading |-> FALSE, result |-> <<cp[d].result>>,
                                ignored |-> FALSE]]
  /\ cp' = [cp EXCEPT ![d] = IdleCp]
  /\ UNCHANGED <<git, currentPath, initPending, reply, head, wt,
                 isCherryPickingInProgress>>

\* setResult(result); finally { setLoading(false); isCherryPickingInProgress = false }
DialogReceive(d) ==
  /\ cp[d].pc = "returned"
  /\ dlg' = [dlg EXCEPT ![d] = [loading |-> FALSE, result |-> <<cp[d].result>>,
                                ignored |-> FALSE]]
  /\ isCherryPickingInProgress' = FALSE
  /\ cp' = [cp EXCEPT ![d] = IdleCp]
  /\ UNCHANGED <<git, currentPath, initPending, reply, head, wt>>

\* useEffect on `open`: setResult(null) when the dialog is opened again
DialogReopen(d) ==
  /\ ~dlg[d].loading
  /\ dlg[d] # IdleDlg
  /\ dlg' = [dlg EXCEPT ![d] = IdleDlg]
  /\ UNCHANGED <<git, currentPath, initPending, reply, head, wt,
                 isCherryPickingInProgress, cp>>

\* ------------------------------------------------ cherryPickCommits, steps
\* Entry: if (!this.git) return {success: false, ...}; otherwise
\* getCurrentBranch() issues this.git.branch().
CpEnter(d) ==
  /\ cp[d].pc = "invoked"
  /\ cp' = [cp EXCEPT ![d] =
              IF git = NULL
              THEN Returned([@ EXCEPT !.result = NewResult(FALSE)])
              ELSE [@ EXCEPT !.pc = "branch", !.on = git]]
  /\ UNCHANGED <<git, currentPath, initPending, reply, head, wt,
                 isCherryPickingInProgress, dlg>>

\* getCurrentBranch: branches.current, or '' when the read fails.
CpBranch(d) ==
  /\ cp[d].pc = "branch"
  /\ \E ok \in BOOLEAN :
       LET c == cp[d]
           r == c.on
           cur == IF ok THEN head[r] ELSE ""
           c1 == Log([c EXCEPT !.currentBranch = cur],
                     Call("branch", "", r, ok, FALSE))
       IN cp' = [cp EXCEPT ![d] = IssueCheckout(c1, git)]
  /\ UNCHANGED <<git, currentPath, initPending, reply, head, wt,
                 isCherryPickingInProgress, dlg>>

\* await this.git.checkout(targetBranch)
CpCheckout(d) ==
  /\ cp[d].pc = "checkout"
  /\ LET c == cp[d]
         r == c.on
     IN \/ /\ head' = [head EXCEPT ![r] = c.target]
           /\ cp' = [cp EXCEPT ![d] =
                       IssueApply([Log(c, Call("checkout", c.target, r, TRUE, FALSE))
                                     EXCEPT !.i = 1], git)]
        \/ /\ head' = head
           /\ cp' = [cp EXCEPT ![d] =
                       OuterCatch(Log(c, Call("checkout", c.target, r, FALSE, FALSE)),
                                  git)]
  /\ UNCHANGED <<git, currentPath, initPending, reply, wt,
                 isCherryPickingInProgress, dlg>>

\* Mutant: the commits are applied from the last requested to the first.
CpApply_Reversed(d) ==
  /\ cp[d].pc = "apply"
  /\ LET c == cp[d]
         r == c.on
         h == c.hashes[Len(c.hashes) + 1 - c.i]
     IN \/ /\ \E t \in (IF c.noCommit THEN {OverlapTree, wt[r]} ELSE {wt[r]}) :
                wt' = [wt EXCEPT ![r] = t]
           /\ cp' = [cp EXCEPT ![d] =
                       AfterApplyOk(
                         Log(c, Call("cherry-pick", h, r, TRUE, ~c.noCommit)), git)]
        \/ /\ \E t \in Trees : wt' = [wt EXCEPT ![r] = t]
           /\ cp' = [cp EXCEPT ![d] =
                       IssueStatus(
                         Log(c, Call("cherry-pick", h, r, FALSE, FALSE)), git)]
  /\ UNCHANGED <<git, currentPath, initPending, reply, head,
                 isCherryPickingInProgress, dlg>>

\* await this.git.raw(['cherry-pick', commitHash, ('--no-commit')])
\* Success without --no-commit creates a commit on the checked-out branch;
\* with --no-commit the changes are left in the index.  A failure leaves the
\* working tree in any state (conflicted or as it was).
CpApply(d) ==
  /\ cp[d].pc = "apply"
  /\ LET c == cp[d]
         r == c.on
         h == c.hashes[c.i]
     IN \/ /\ \E t \in (IF c.noCommit THEN {OverlapTree, wt[r]} ELSE {wt[r]}) :
                wt' = [wt EXCEPT ![r] = t]
           /\ cp' = [cp EXCEPT ![d] =
                       AfterApplyOk(
                         Log(c, Call("cherry-pick", h, r, TRUE, ~c.noCommit)), git)]
        \/ /\ \E t \in Trees : wt' = [wt EXCEPT ![r] = t]
           /\ cp' = [cp EXCEPT ![d] =
                       IssueStatus(
                         Log(c, Call("cherry-pick", h, r, FALSE, FALSE)), git)]
  /\ UNCHANGED <<git, currentPath, initPending, reply, head,
                 isCherryPickingInProgress, dlg>>

\* getStatus(): this.git.status() mapped by StatusOf, the empty status when it throws.
CpStatus(d) ==
  /\ cp[d].pc = "status"
  /\ \E ok \in BOOLEAN :
       LET c == cp[d]
           r == c.on
           st == IF ok THEN StatusOf(wt[r]) ELSE EmptyStatus
       IN cp' = [cp EXCEPT ![d] =
                   AfterStatus(Log(c, StatusCall(r, ok, st)), st, git)]
  /\ UNCHANGED <<git, currentPath, initPending, reply, head, wt,
                 isCherryPickingInProgress, dlg>>

\* await this.git.commit(`Squashed ${commitHashes.length} commits`)
CpSquash(d) ==
  /\ cp[d].pc = "squash"
  /\ LET c == cp[d]
         r == c.on
     IN \/ cp' = [cp EXCEPT ![d] =
                    IssueRestore(Log(c, Call("commit", "squash", r, TRUE, TRUE)), git)]
        \/ cp' = [cp EXCEPT ![d] =
                    OuterCatch(Log(c, Call("commit", "squash", r, FALSE, FALSE)), git)]
  /\ UNCHANGED <<git, currentPath, initPending, reply, head, wt,
                 isCherryPickingInProgress, dlg>>

\* Mutant: a failed restore marks the whole cherry-pick as failed.
CpRestore_FailureOverturns(d) ==
  /\ cp[d].pc = "restore"
  /\ LET c == cp[d]
         r == c.on
     IN \/ /\ c.currentBranch \in Branches
           /\ head' = [head EXCEPT ![r] = c.currentBranch]
           /\ cp' = [cp EXCEPT ![d] =
                       Returned(Log(c, Call("checkout", c.currentBranch, r, TRUE, FALSE)))]
        \/ /\ head' = head
           /\ cp' = [cp EXCEPT ![d] =
                       Returned(Log([c EXCEPT !.result.success = FALSE],
                                    Call("checkout", c.currentBranch, r, FALSE, FALSE)))]
  /\ UNCHANGED <<git, currentPath, initPending, reply, wt,
                 isCherryPickingInProgress, dlg>>

\* try { await this.git.checkout(currentBranch) } catch { console.error }; return result
\* The backend cannot check out the empty name a failed branch read left.
CpRestore(d) ==
  /\ cp[d].pc = "restore"
  /\ LET c == cp[d]
         r == c.on
     IN \/ /\ c.currentBranch \in Branches
           /\ head' = [head EXCEPT ![r] = c.currentBranch]
           /\ cp' = [cp EXCEPT ![d] =
                       Returned(Log(c, Call("checkout", c.currentBranch, r, TRUE, FALSE)))]
        \/ /\ head' = head
           /\ cp' = [cp EXCEPT ![d] =
                       Returned(Log(c, Call("checkout", c.currentBranch, r, FALSE, FALSE)))]
  /\ UNCHANGED <<git, currentPath, initPending, reply, wt,
                 isCherryPickingInProgress, dlg>>

\* ------------------------------------------------- session operations (IPC)
\* Every operation is written once, by the outcome of its backend call
\* (`...Do`), and used twice: under its own name by the renderer handlers of
\* Spec, which discard what the service returns, and as `...Call` by a caller
\* that keeps the reply.

\* try { await <backend call>; return true } catch { return false }, and the
\* `if (!this.git) return false` in front of it.
BoolResult(o) == o = "ok"

\* What a caller got back: the operation and its argument, the handle the
\* operation found (NULL: no session), the outcome of its backend call
\* ("none": no backend call was issued) and the value returned.
Reply(op, arg, o, v) ==
  [op |-> op, arg |-> arg, on |-> git, outcome |-> o, value |-> v]

NoReply ==
  [op |-> "none", arg |-> "", on |-> NULL, outcome |-> "none",
   value |-> "undefined"]

\* openRepository: "notrepo" isGitRepository() is false, nothing changes;
\* "ok" simpleGit() replaces the handle; "throw" simpleGit() throws and the
\* catch block clears the session.
OpenRepositoryDo(p, o) ==
  \/ /\ o = "notrepo"
     /\ UNCHANGED <<git, currentPath>>
  \/ /\ o = "ok"
     /\ p \in Repos
     /\ git' = p
     /\ currentPath' = p
  \/ /\ o = "throw"
     /\ p \in Repos
     /\ git' = NULL
     /\ currentPath' = NULL

OpenOutcomes == {"notrepo", "ok", "throw"}

OpenRepository(p) ==
  /\ \E o \in OpenOutcomes : OpenRepositoryDo(p, o)
  /\ UNCHANGED <<initPending, head, wt, isCherryPickingInProgress, dlg, cp,
                 reply>>

OpenRepositoryCall(p) ==
  /\ \E o \in OpenOutcomes :
       /\ OpenRepositoryDo(p, o)
       /\ reply' = Reply("openRepository", p, o, BoolResult(o))
  /\ UNCHANGED <<initPending, head, wt, isCherryPickingInProgress, dlg, cp>>

\* initRepository up to its await: this.git = simpleGit(repoPath); git.init() issued.
\* simpleGit() throwing returns false with nothing changed.
InitRepository(p) ==
  /\ initPending = NULL
  /\ \/ /\ git' = p
        /\ initPending' = p
        /\ reply' = reply
     \/ /\ UNCHANGED <<git, initPending>>
        /\ reply' = Reply("initRepository", p, "throw", FALSE)
  /\ UNCHANGED <<currentPath, head, wt, isCherryPickingInProgress, dlg, cp>>

\* git.init() completes: this.currentPath = repoPath, or the catch returns false.
InitDone ==
  /\ initPending # NULL
  /\ \/ /\ currentPath' = initPending
        /\ reply' = Reply("initRepository", initPending, "ok", TRUE)
     \/ /\ currentPath' = currentPath
        /\ reply' = Reply("initRepository", initPending, "failed", FALSE)
  /\ initPending' = NULL
  /\ UNCHANGED <<git, head, wt, isCherryPickingInProgress, dlg, cp>>

\* Mutant: closeRepository drops the handle and keeps the path.
CloseRepositoryDo_KeepsPath ==
  /\ git' = NULL
  /\ currentPath' = currentPath

\* closeRepository
CloseRepositoryDo ==
  /\ git' = NULL
  /\ currentPath' = NULL

CloseRepository ==
  /\ CloseRepositoryDo
  /\ UNCHANGED <<initPending, head, wt, isCherryPickingInProgress, dlg, cp,
                 reply>>

CloseRepositoryCall ==
  /\ CloseRepositoryDo
  /\ reply' = Reply("closeRepository", "", "none", "undefined")
  /\ UNCHANGED <<initPending, head, wt, isCherryPickingInProgress, dlg, cp>>

\* addFiles: "none" no session; "ok" this.git.add(files) succeeded and left
\* staged entries in the index; "failed" the backend rejected it.
AddFilesDo(o) ==
  \/ /\ o = "none"
     /\ git = NULL
     /\ wt' = wt
  \/ /\ o = "ok"
     /\ git # NULL
     /\ \E t \in {x \in Trees : x.staged # <<>>} : wt' = [wt EXCEPT ![git] = t]
  \/ /\ o = "failed"
     /\ git # NULL
     /\ wt' = wt

AddFiles ==
  /\ \E o \in {"none", "ok", "failed"} : AddFilesDo(o)
  /\ UNCHANGED <<git, currentPath, initPending, head,
                 isCherryPickingInProgress, dlg, cp, reply>>

AddFilesCall ==
  /\ \E o \in {"none", "ok", "failed"} :
       /\ AddFilesDo(o)
       /\ reply' = Reply("addFiles", "", o, BoolResult(o))
  /\ UNCHANGED <<git, currentPath, initPending, head,
                 isCherryPickingInProgress, dlg, cp>>

\* Commit messages, as their characters.
WhiteSpace == {" ", "\t", "\n"}
Messages == {<<>>, <<" ">>, <<" ", "\t">>, <<"f">>, <<" ", "f", " ">>}

\* String.prototype.trim
RECURSIVE TrimStart(_)
TrimStart(m) ==
  IF m # <<>> /\ Head(m) \in WhiteSpace THEN TrimStart(Tail(m)) ELSE m

RECURSIVE TrimEnd(_)
TrimEnd(m) ==
  IF m # <<>> /\ m[Len(m)] \in WhiteSpace
  THEN TrimEnd(SubSeq(m, 1, Len(m) - 1))
  ELSE m

Trim(m) == TrimEnd(TrimStart(m))

\* commit: "none" no session; "ok" this.git.commit(message) succeeded and the
\* index is empty; "failed" the backend rejected the commit.  git aborts a
\* commit whose message is blank.
CommitDo(m, o) ==
  \/ /\ o = "none"
     /\ git = NULL
     /\ wt' = wt
  \/ /\ o = "ok"
     /\ git # NULL
     /\ Trim(m) # <<>>
     /\ \E t \in {x \in Trees : x.staged = <<>>} : wt' = [wt EXCEPT ![git] = t]
  \/ /\ o = "failed"
     /\ git # NULL
     /\ wt' = wt

CommitOutcomes == {"none", "ok", "failed"}

Commit ==
  /\ \E m \in Messages, o \in CommitOutcomes : CommitDo(m, o)
  /\ UNCHANGED <<git, currentPath, initPending, head,
                 isCherryPickingInProgress, dlg, cp, reply>>

CommitCall(m) ==
  /\ \E o \in CommitOutcomes :
       /\ CommitDo(m, o)
       /\ reply' = Reply("commit", m, o, BoolResult(o))
  /\ UNCHANGED <<git, currentPath, initPending, head,
                 isCherryPickingInProgress, dlg, cp>>

\* handleCommit: if (!commitMessage.trim()) return; otherwise commit() is
\* invoked and what it returns is dropped.
HandleCommit(m) ==
  /\ IF Trim(m) = <<>>
     THEN /\ wt' = wt
          /\ reply' = Reply("handleCommit", m, "none", "undefined")
     ELSE \E o \in CommitOutcomes :
            /\ CommitDo(m, o)
            /\ reply' = Reply("handleCommit", m, o, "undefined")
  /\ UNCHANGED <<git, currentPath, initPending, head,
                 isCherryPickingInProgress, dlg, cp>>

\* createBranch: this.git.checkoutBranch(name, 'HEAD'); the branch checked out
\* already exists, so creating it again cannot succeed.
CreateBranchDo(name, o) ==
  \/ /\ o = "none"
     /\ git = NULL
     /\ head' = head
  \/ /\ o = "ok"
     /\ git # NULL
     /\ name # head[git]
     /\ head' = [head EXCEPT ![git] = name]
  \/ /\ o = "failed"
     /\ git # NULL
     /\ head' = head

\* Mutant: no guard, the call on the null handle throws into the catch block.
CheckoutBranchDo_NoGuard(name, o) ==
  \/ /\ o = "ok"
     /\ git # NULL
     /\ head' = [head EXCEPT ![git] = name]
  \/ /\ o = "failed"
     /\ head' = head

\* checkoutBranch: this.git.checkout(name)
CheckoutBranchDo(name, o) ==
  \/ /\ o = "none"
     /\ git = NULL
     /\ head' = head
  \/ /\ o = "ok"
     /\ git # NULL
     /\ head' = [head EXCEPT ![git] = name]
  \/ /\ o = "failed"
     /\ git # NULL
     /\ head' = head

BranchOutcomes == {"none", "ok", "failed"}

CreateBranch(name) ==
  /\ \E o \in BranchOutcomes : CreateBranchDo(name, o)
  /\ UNCHANGED <<git, currentPath, initPending, wt,
                 isCherryPickingInProgress, dlg, cp, reply>>

CreateBranchCall(name) ==
  /\ \E o \in BranchOutcomes :
       /\ CreateBranchDo(name, o)
       /\ reply' = Reply("createBranch", name, o, BoolResult(o))
  /\ UNCHANGED <<git, currentPath, initPending, wt,
                 isCherryPickingInProgress, dlg, cp>>

CheckoutBranch(name) ==
  /\ \E o \in BranchOutcomes : CheckoutBranchDo(name, o)
  /\ UNCHANGED <<git, currentPath, initPending, wt,
                 isCherryPickingInProgress, dlg, cp, reply>>

CheckoutBranchCall(name) ==
  /\ \E o \in BranchOutcomes :
       /\ CheckoutBranchDo(name, o)
       /\ reply' = Reply("checkoutBranch", name, o, BoolResult(o))
  /\ UNCHANGED <<git, currentPath, initPending, wt,
                 isCherryPickingInProgress, dlg, cp>>

\* mergeBranch: this.git.merge([sourceBranch]).  The backend either merges
\* ("ok"), refuses and leaves everything as it was ("aborted"), or stops in
\* the middle and leaves the working tree with conflicts ("conflicted").
MergeBranchDo(source, o) ==
  \/ /\ o = "none"
     /\ git = NULL
     /\ wt' = wt
  \/ /\ o \in {"ok", "aborted"}
     /\ git # NULL
     /\ wt' = wt
  \/ /\ o = "conflicted"
     /\ git # NULL
     /\ \E t \in Trees \ {CleanTree} : wt' = [wt EXCEPT ![git] = t]

\* rebaseBranch: this.git.rebase([targetBranch]), with the same outcomes.
RebaseBranchDo(target, o) ==
  \/ /\ o = "none"
     /\ git = NULL
     /\ wt' = wt
  \/ /\ o \in {"ok", "aborted"}
     /\ git # NULL
     /\ wt' = wt
  \/ /\ o = "conflicted"
     /\ git # NULL
     /\ \E t \in Trees \ {CleanTree} : wt' = [wt EXCEPT ![git] = t]

MergeOutcomes == {"none", "ok", "aborted", "conflicted"}

MergeBranch(source) ==
  /\ \E o \in MergeOutcomes : MergeBranchDo(source, o)
  /\ UNCHANGED <<git, currentPath, initPending, head,
                 isCherryPickingInProgress, dlg, cp, reply>>

MergeBranchCall(source) ==
  /\ \E o \in MergeOutcomes :
       /\ MergeBranchDo(source, o)
       /\ reply' = Reply("mergeBranch", source, o, BoolResult(o))
  /\ UNCHANGED <<git, currentPath, initPending, head,
                 isCherryPickingInProgress, dlg, cp>>

RebaseBranch(target) ==
  /\ \E o \in MergeOutcomes : RebaseBranchDo(target, o)
  /\ UNCHANGED <<git, currentPath, initPending, head,
                 isCherryPickingInProgress, dlg, cp, reply>>

RebaseBranchCall(target) ==
  /\ \E o \in MergeOutcomes :
       /\ RebaseBranchDo(target, o)
       /\ reply' = Reply("rebaseBranch", target, o, BoolResult(o))
  /\ UNCHANGED <<git, currentPath, initPending, head,
                 isCherryPickingInProgress, dlg, cp>>

\* ----------------------------------------------------------- read operations
\* Each read is taken as one step: the handle is read once, when the backend
\* call is issued, and nothing of the session is written.

\* The backend statuses a read can meet: every combination of the staged,
\* modified and deleted lists over two files.
FileLists == {<<>>, <<"a">>, <<"b">>, <<"a", "b">>}
StatusResults ==
  [staged : FileLists, modified : FileLists, deleted : FileLists,
   not_added : {<<>>}, conflicted : {<<>>}]

\* branches.all and logResult.all (hashes, newest first) of the backend
BranchList == <<"feat", "main">>
LogList == <<"c4", "c3">>

\* Files change under the open repository (an editor, a git command line).
WorkingTreeChanges ==
  /\ git # NULL
  /\ \E t \in StatusResults : wt' = [wt EXCEPT ![git] = t]
  /\ UNCHANGED <<git, currentPath, initPending, head,
                 isCherryPickingInProgress, dlg, cp, reply>>

\* Mutant: unstaged is modified and deleted, unfiltered.
GetStatusValue_NoFilter(o) ==
  IF o = "ok"
  THEN [staged |-> wt[git].staged,
        unstaged |-> wt[git].modified \o wt[git].deleted,
        untracked |-> wt[git].not_added]
  ELSE EmptyStatus

\* getStatus: the empty status with no session ("none") and when
\* this.git.status() throws ("failed"), the mapped status otherwise.
GetStatusValue(o) == IF o = "ok" THEN StatusOf(wt[git]) ELSE EmptyStatus

\* Mutant: no guard, the call on the null handle throws into the catch block.
ReadOutcomes_NoGuard == IF git = NULL THEN {"failed"} ELSE {"ok", "failed"}

\* The outcomes a read can have: no backend call without a handle.
ReadOutcomes == IF git = NULL THEN {"none"} ELSE {"ok", "failed"}

\* Mutant: reading the status stages what was unstaged.
GetStatus_Stages ==
  /\ \E o \in ReadOutcomes : reply' = Reply("getStatus", "", o, GetStatusValue(o))
  /\ wt' = IF git = NULL
           THEN wt
           ELSE [wt EXCEPT ![git].staged = wt[git].modified,
                           ![git].modified = <<>>]
  /\ UNCHANGED <<git, currentPath, initPending, head,
                 isCherryPickingInProgress, dlg, cp>>

GetStatus ==
  /\ \E o \in ReadOutcomes : reply' = Reply("getStatus", "", o, GetStatusValue(o))
  /\ UNCHANGED <<git, currentPath, initPending, head, wt,
                 isCherryPickingInProgress, dlg, cp>>

\* getBranches: [] with no session and when this.git.branch() throws
GetBranches ==
  /\ \E o \in ReadOutcomes :
       reply' = Reply("getBranches", "", o, IF o = "ok" THEN BranchList ELSE <<>>)
  /\ UNCHANGED <<git, currentPath, initPending, head, wt,
                 isCherryPickingInProgress, dlg, cp>>

\* getCommits: [] with no session and when this.git.log() throws
GetCommits ==
  /\ \E o \in ReadOutcomes :
       reply' = Reply("getCommits", "", o, IF o = "ok" THEN LogList ELSE <<>>)
  /\ UNCHANGED <<git, currentPath, initPending, head, wt,
                 isCherryPickingInProgress, dlg, cp>>

\* if (!this.git || !this.currentPath) return null
GetCurrentRepositoryOutcomes ==
  IF git = NULL \/ currentPath = NULL THEN {"none"} ELSE {"ok", "failed"}

\* getCurrentRepository: null without a session; the descriptor with status
\* and branch; the bare descriptor when this.git.branch() throws.  The name
\* is path.basename of the path (model paths are one segment long).
GetCurrentRepository ==
  /\ \E o \in GetCurrentRepositoryOutcomes, so \in {"ok", "failed"} :
       reply' =
         Reply("getCurrentRepository", "", o,
               CASE o = "none" -> NULL
                 [] o = "ok" -> [path |-> currentPath, name |-> currentPath,
                                 currentBranch |-> head[git],
                                 status |-> GetStatusValue(so)]
                 [] OTHER -> [path |-> currentPath, name |-> currentPath])
  /\ UNCHANGED <<git, currentPath, initPending, head, wt,
                 isCherryPickingInProgress, dlg, cp>>

\* ------------------------------------------------------------ diff summarizer
\* A line of `git show` output is the sequence of its pieces, the first piece
\* being what startsWith() looks at.  The file headers come in the plain
\* form and in the quoted form git uses for paths with special characters.
PlainHeader(n) == <<"diff --git", " ", "a/", n, " ", "b/", n>>
QuotedHeader(n) ==
  <<"diff --git", " ", "\"", "a/", n, "\"", " ", "\"", "b/", n, "\"">>

Lines ==
  { PlainHeader("f"), PlainHeader("g"), QuotedHeader("q"),
    <<"index 1..2">>, <<"@@", " -1 +1 ", "@@">>,
    <<"+", "x">>, <<"-", "y">>,
    <<"+", "+", "+", " b/f">>, <<"-", "-", "-", " a/f">>, <<>> }

\* diffOutput.split('\n'): at least one line, the empty patch is one empty line
Patches == UNION {[1..n -> Lines] : n \in 1..MaxLines}

\* String.prototype.startsWith
StartsWith(line, prefix) ==
  Len(line) >= Len(prefix) /\ SubSeq(line, 1, Len(prefix)) = prefix

\* line.match(/diff --git a\/(.+) b\/(.+)/): "diff --git a/" literally, a
\* name, " b/" and a name.
HeaderMatch(line) ==
  /\ Len(line) >= 7
  /\ SubSeq(line, 1, 3) = <<"diff --git", " ", "a/">>
  /\ SubSeq(line, 5, 6) = <<" ", "b/">>

\* The locals of parseDiff.  DiffFile objects are shared by reference between
\* currentFile and files, so they live in `objs` and are referred to by
\* their index; currentFile = 0 is null.  A patch text is kept as the list of
\* lines that join('\n') glues together.
ParseStart ==
  [objs |-> <<>>, files |-> <<>>, totalAdditions |-> 0, totalDeletions |-> 0,
   currentFile |-> 0, inPatch |-> FALSE, patchLines |-> <<>>]

\* if (currentFile) { currentFile.patch = patchLines.join('\n'); files.push(currentFile) }
SaveFile(s) ==
  IF s.currentFile # 0
  THEN [s EXCEPT !.objs[s.currentFile].patch = s.patchLines,
                 !.files = Append(@, s.currentFile)]
  ELSE s

\* One iteration of `for (const line of lines)`.
ParseLine(s, line) ==
  IF StartsWith(line, <<"diff --git">>)
  THEN LET s1 == SaveFile(s)
       IN IF HeaderMatch(line)
          THEN [s1 EXCEPT !.objs = Append(@, [filename |-> line[7],
                                              additions |-> 0,
                                              deletions |-> 0,
                                              patch |-> <<>>]),
                          !.currentFile = Len(s1.objs) + 1,
                          !.inPatch = FALSE,
                          !.patchLines = <<>>]
          ELSE s1
  ELSE IF s.currentFile # 0 /\ StartsWith(line, <<"@@">>)
  THEN [s EXCEPT !.inPatch = TRUE, !.patchLines = Append(@, line)]
  ELSE IF s.inPatch /\ s.currentFile # 0
  THEN LET s1 == [s EXCEPT !.patchLines = Append(@, line)]
       IN IF StartsWith(line, <<"+">>) /\ ~StartsWith(line, <<"+", "+", "+">>)
          THEN [s1 EXCEPT !.objs[s.currentFile].additions = @ + 1,
                          !.totalAdditions = @ + 1]
          ELSE IF StartsWith(line, <<"-">>)
                    /\ ~StartsWith(line, <<"-", "-", "-">>)
          THEN [s1 EXCEPT !.objs[s.currentFile].deletions = @ + 1,
                          !.totalDeletions = @ + 1]
          ELSE s1
  ELSE s

RECURSIVE ParseLines(_, _)
ParseLines(s, lines) ==
  IF lines = <<>> THEN s ELSE ParseLines(ParseLine(s, Head(lines)), Tail(lines))

\* parseDiff: the loop, the save of the last file, and the CommitDiff returned.
ParseDiff(lines) ==
  LET s == SaveFile(ParseLines(ParseStart, lines))
  IN [files |-> [k \in 1..Len(s.files) |-> s.objs[s.files[k]]],
      totalAdditions |-> s.totalAdditions,
      totalDeletions |-> s.totalDeletions]

\* diff: { files: [], totalAdditions: 0, totalDeletions: 0 }
EmptyDiff == [files |-> <<>>, totalAdditions |-> 0, totalDeletions |-> 0]

\* parseDiff applied to the output the backend handed over.
ParseDiffReturns ==
  /\ reply.op = "parseDiff"
  /\ reply.outcome = "pending"
  /\ reply' = [reply EXCEPT !.outcome = "none", !.value = ParseDiff(reply.arg)]
  /\ UNCHANGED <<git, currentPath, initPending, head, wt,
                 isCherryPickingInProgress, dlg, cp>>

\* ------------------------------------------------- getCommits with diffs
\* What git show prints for a commit.
ShowOutputs ==
  {<<PlainHeader("f"), <<"@@", " -1 +1 ", "@@">>, <<"+", "x">>>>,
   <<PlainHeader("g"), <<"@@", " -1 +1 ", "@@">>, <<"-", "y">>>>,
   <<PlainHeader("f"), <<"@@", " -1 +1 ", "@@">>, <<"+", "x">>,
     PlainHeader("g"), <<"@@", " -1 +1 ", "@@">>, <<"-", "y">>>>,
   <<QuotedHeader("q"), <<"@@", " -1 +1 ", "@@">>, <<"+", "x">>>>,
   <<PlainHeader("f")>>,
   <<>>}

\* logResult.all.map(commit => ({hash, ..., diff: {files: [], 0, 0}}))
PageOf(log) == [k \in DOMAIN log |-> [hash |-> log[k], diff |-> EmptyDiff]]

\* getCommits({includeDiffs: true}) up to the end of this.git.log(): [] with
\* no session and when the log throws; otherwise the page, every commit
\* with the empty diff, and the loop over the page begins.
GetCommitsLog ==
  /\ reply.outcome # "pending"
  /\ \E o \in ReadOutcomes :
       reply' = [op |-> "getCommits",
                 arg |-> [includeDiffs |-> TRUE, next |-> 1, failed |-> {}],
                 on |-> git,
                 outcome |-> IF o = "ok" THEN "pending" ELSE o,
                 value |-> IF o = "ok" THEN PageOf(LogList) ELSE <<>>]
  /\ UNCHANGED <<git, currentPath, initPending, head, wt,
                 isCherryPickingInProgress, dlg, cp>>

\* The outcomes of this.git.show(): this.git is read anew in every
\* iteration, a null handle throws inside the try.
ShowOutcomes == IF git = NULL THEN {"failed"} ELSE {"ok", "failed"}

\* Mutant: a show that throws is caught by the outer catch, which returns [].
ShowFailed_FailsPage(r) ==
  [r EXCEPT !.outcome = "failed", !.value = <<>>,
            !.arg.failed = @ \cup {r.arg.next}, !.arg.next = @ + 1]

\* catch (error) { console.warn(...) }: the commit keeps what it had
ShowFailed(r) ==
  [r EXCEPT !.arg.failed = @ \cup {r.arg.next},
            !.arg.next = @ + 1,
            !.outcome = IF r.arg.next = Len(r.value) THEN "ok" ELSE "pending"]

\* commit.diff = this.parseDiff(diff)
ShowLoaded(r, out) ==
  [r EXCEPT !.value[r.arg.next].diff = ParseDiff(out),
            !.arg.next = @ + 1,
            !.outcome = IF r.arg.next = Len(r.value) THEN "ok" ELSE "pending"]

\* One iteration of the loop over the page; after the last one the page is
\* returned.
GetCommitsShow ==
  /\ reply.op = "getCommits"
  /\ reply.outcome = "pending"
  /\ \E o \in ShowOutcomes :
       IF o = "ok"
       THEN \E out \in ShowOutputs : reply' = ShowLoaded(reply, out)
       ELSE reply' = ShowFailed(reply)
  /\ UNCHANGED <<git, currentPath, initPending, head, wt,
                 isCherryPickingInProgress, dlg, cp>>

\* ------------------------------------------------------ getCommits, paging
\* An optional number of GetCommitsOptions: <<>> when the field is absent.
OptionalNumbers == {<<>>} \cup {<<n>> : n \in 0..MaxPage}

\* if (options.limit), if (options.skip): absent and 0 are falsy
Truthy(x) == x # <<>> /\ x[1] # 0

\* logOptions: maxCount and '--skip' are set for truthy fields only.
LogOptions(options) ==
  [maxCount |-> IF Truthy(options.limit) THEN options.limit ELSE <<>>,
   skip |-> IF Truthy(options.skip) THEN options.skip ELSE <<>>]

\* The histories of the backend, newest first.
Histories == {SubSeq(<<"c4", "c3", "c2", "c1">>, 1, n) : n \in 0..4}

\* git log --max-count=<maxCount> --skip=<skip>: the commits behind the
\* first skip ones, maxCount of them at most, all of them without maxCount.
GitLog(history, logOptions) ==
  LET from == IF logOptions.skip = <<>> THEN 1 ELSE logOptions.skip[1] + 1
      upto == IF logOptions.maxCount = <<>>
              THEN Len(history)
              ELSE IF from - 1 + logOptions.maxCount[1] < Len(history)
                   THEN from - 1 + logOptions.maxCount[1]
                   ELSE Len(history)
  IN SubSeq(history, from, upto)

\* getCommits(options) on an open session: the page this.git.log(logOptions)
\* yields, [] when it throws.
GetCommitsPage ==
  /\ reply.op = "getCommits"
  /\ reply.outcome = "pending"
  /\ \E o \in {"ok", "failed"} :
       reply' = [reply EXCEPT
                   !.outcome = o,
                   !.value = IF o = "ok"
                             THEN GitLog(reply.arg.history,
                                         LogOptions(reply.arg.options))
                             ELSE <<>>]
  /\ UNCHANGED <<git, currentPath, initPending, head, wt,
                 isCherryPickingInProgress, dlg, cp>>

\* -------------------------------------------------------- repository scanner
\* A file name is the sequence of its pieces, the first piece being what
\* startsWith('.') looks at; a path is the sequence of its names (path.join
\* appends a name, path.basename is the last name).
NameW == <<"w">>
NameUpperW == <<"W">>
NameA == <<"a">>
NameHidden == <<".", "h">>
NameR == <<"r">>
NameF == <<"f">>
NameX == <<"x">>
DotGit == <<".", "git">>

\* for (const item of items.slice(0, 10))
ScanLimit == 10

\* String.prototype.toLowerCase, piece by piece
LowerPiece(c) == CASE c = "W" -> "w" [] c = "A" -> "a" [] OTHER -> c
LowerName(n) == [k \in DOMAIN n |-> LowerPiece(n[k])]
LowerPath(path) == [k \in DOMAIN path |-> LowerName(path[k])]

\* The directory tree discovery runs on: w holds the directory a, the hidden
\* directory .h with the repository r inside, and the plain file f.  What
\* varies: whether names are matched case-insensitively, whether w and a can
\* be read, whether a holds the marker, whether its branch can be read.
FileSystem(ci, wReadable, aReadable, aMarker, aBranchOk) ==
  [ci |-> ci,
   nodes |->
     [path \in {<<NameW>>, <<NameW, NameA>>, <<NameW, NameHidden>>,
                <<NameW, NameHidden, NameR>>, <<NameW, NameF>>} |->
        CASE path = <<NameW>> ->
               [kind |-> "dir", readable |-> wReadable,
                items |-> <<NameA, NameHidden, NameF>>, branchOk |-> FALSE]
          [] path = <<NameW, NameA>> ->
               [kind |-> "dir", readable |-> aReadable,
                items |-> IF aMarker THEN <<DotGit>> ELSE <<>>,
                branchOk |-> aBranchOk]
          [] path = <<NameW, NameHidden>> ->
               [kind |-> "dir", readable |-> TRUE, items |-> <<NameR>>,
                branchOk |-> FALSE]
          [] path = <<NameW, NameHidden, NameR>> ->
               [kind |-> "dir", readable |-> TRUE, items |-> <<DotGit>>,
                branchOk |-> TRUE]
          [] OTHER ->
               [kind |-> "file", readable |-> TRUE, items |-> <<>>,
                branchOk |-> FALSE]]]

FileSystems ==
  {FileSystem(ci, wr, ar, am, ab) :
     ci \in BOOLEAN, wr \in BOOLEAN, ar \in BOOLEAN, am \in BOOLEAN,
     ab \in BOOLEAN}

\* The scan paths a caller can pass: w, w under another spelling, the
\* directories below it, and a directory that does not exist.
ScanRoots ==
  {<<NameW>>, <<NameUpperW>>, <<NameW, NameA>>, <<NameW, NameHidden>>, <<NameX>>}
ScanPathLists == UNION {[1..n -> ScanRoots] : n \in 0..MaxScanPaths}

\* fs.promises.stat(path): the node, or "missing" when stat throws
Stat(fs, path) ==
  LET key == IF fs.ci THEN LowerPath(path) ELSE path
  IN IF key \in DOMAIN fs.nodes
     THEN fs.nodes[key]
     ELSE [kind |-> "missing", readable |-> FALSE, items |-> <<>>,
           branchOk |-> FALSE]

\* if (items.includes('.git')) { try { ...branch(); repositories.push({...}) } catch {} }
OwnDescriptor(fs, dirPath) ==
  IF InSeq(DotGit, Stat(fs, dirPath).items) /\ Stat(fs, dirPath).branchOk
  THEN <<[path |-> dirPath, name |-> dirPath[Len(dirPath)],
          currentBranch |-> "main"]>>
  ELSE <<>>

RECURSIVE ScanDirectoryForRepos(_, _)

\* Mutant: hidden directories are scanned like the others.
ScanItem_Hidden(fs, dirPath, item) ==
  IF Stat(fs, Append(dirPath, item)).kind = "dir"
  THEN ScanDirectoryForRepos(fs, Append(dirPath, item))
  ELSE <<>>

\* One iteration of the loop over the items: hidden names are skipped, a
\* stat that throws is skipped, a directory is scanned recursively.
ScanItem(fs, dirPath, item) ==
  IF StartsWith(item, <<".">>)
  THEN <<>>
  ELSE IF Stat(fs, Append(dirPath, item)).kind = "dir"
  THEN ScanDirectoryForRepos(fs, Append(dirPath, item))
  ELSE <<>>

RECURSIVE ScanItems(_, _, _)
ScanItems(fs, dirPath, items) ==
  IF items = <<>>
  THEN <<>>
  ELSE ScanItem(fs, dirPath, Head(items)) \o ScanItems(fs, dirPath, Tail(items))

\* scanDirectoryForRepos: [] when stat or readdir throws or the path is no
\* directory; otherwise the directory's own descriptor, then what the scan
\* of its first ScanLimit items finds.
ScanDirectoryForRepos(fs, dirPath) ==
  LET n == Stat(fs, dirPath)
  IN IF n.kind # "dir" \/ ~n.readable
     THEN <<>>
     ELSE OwnDescriptor(fs, dirPath)
            \o ScanItems(fs, dirPath,
                         SubSeq(n.items, 1,
                                IF Len(n.items) < ScanLimit
                                THEN Len(n.items) ELSE ScanLimit))

RECURSIVE ScanAll(_, _)
ScanAll(fs, scanPaths) ==
  IF scanPaths = <<>>
  THEN <<>>
  ELSE ScanDirectoryForRepos(fs, Head(scanPaths)) \o ScanAll(fs, Tail(scanPaths))

\* Mutant: repoMap.set(key, repo) without the has() test, the last one wins.
Unique_KeepLast(repos) ==
  SelectSeq([k \in DOMAIN repos |-> [k |-> k, repo |-> repos[k]]],
            LAMBDA e : \A j \in (e.k + 1)..Len(repos) :
                         LowerPath(repos[j].path) # LowerPath(e.repo.path))

\* The Map keyed by repo.path.toLowerCase(): the first descriptor of a key
\* is kept, in the order of first insertion.
Unique(repos) ==
  SelectSeq([k \in DOMAIN repos |-> [k |-> k, repo |-> repos[k]]],
            LAMBDA e : \A j \in 1..(e.k - 1) :
                         LowerPath(repos[j].path) # LowerPath(e.repo.path))

\* Mutant: a scan path that cannot be scanned fails the whole discovery.
DiscoverRepositories_FailFast(fs, scanPaths) ==
  IF \E k \in DOMAIN scanPaths : Stat(fs, scanPaths[k]).kind = "missing"
  THEN <<>>
  ELSE LET u == Unique(ScanAll(fs, scanPaths))
       IN [k \in DOMAIN u |-> u[k].repo]

\* discoverRepositories
DiscoverRepositories(fs, scanPaths) ==
  LET u == Unique(ScanAll(fs, scanPaths))
  IN [k \in DOMAIN u |-> u[k].repo]

DiscoverReturns ==
  /\ reply.op = "discoverRepositories"
  /\ reply.outcome = "pending"
  /\ reply' = [reply EXCEPT
                 !.outcome = "none",
                 !.value = DiscoverRepositories(reply.arg.fs, reply.arg.scanPaths)]
  /\ UNCHANGED <<git, currentPath, initPending, head, wt,
                 isCherryPickingInProgress, dlg, cp>>

\* ------------------------------------------------------------------- spec
\* Spec is the cherry-pick dialog and service together with every other
\* operation that touches the handle or the backend while a cherry-pick is
\* in flight.  initRepository changes the handle exactly as a successful
\* openRepository does, so its await is modelled in SessionSpec only.
Init ==
  /\ git = NULL
  /\ currentPath = NULL
  /\ initPending = NULL
  /\ head = [r \in Repos |-> "main"]
  /\ wt = [r \in Repos |-> CleanTree]
  /\ isCherryPickingInProgress = FALSE
  /\ dlg = [d \in Dialogs |-> IdleDlg]
  /\ cp = [d \in Dialogs |-> IdleCp]
  /\ reply = NoReply

Next ==
  \/ \E d \in Dialogs : HandleCherryPick(d)
  \/ \E d \in Dialogs : DialogReceive(d)
  \/ \E d \in Dialogs : DialogReopen(d)
  \/ \E d \in Dialogs : CpEnter(d)
  \/ \E d \in Dialogs : CpBranch(d)
  \/ \E d \in Dialogs : CpCheckout(d)
  \/ \E d \in Dialogs : CpApply(d)
  \/ \E d \in Dialogs : CpStatus(d)
  \/ \E d \in Dialogs : CpSquash(d)
  \/ \E d \in Dialogs : CpRestore(d)
  \/ \E p \in OpenPaths : OpenRepository(p)
  \/ CloseRepository
  \/ AddFiles
  \/ Commit
  \/ \E b \in Branches : CreateBranch(b)
  \/ \E b \in Branches : CheckoutBranch(b)
  \/ \E b \in Branches : MergeBranch(b)
  \/ \E b \in Branches : RebaseBranch(b)

Spec == Init /\ [][Next]_vars

\* The steps by which the cherry-pick of dialog d goes on: a backend call
\* of its invocation returns, or the result reaches the dialog.
CpProgress(d) ==
  \/ CpEnter(d)
  \/ CpBranch(d)
  \/ CpCheckout(d)
  \/ CpApply(d)
  \/ CpStatus(d)
  \/ CpSquash(d)
  \/ CpRestore(d)
  \/ DialogReceive(d)

\* The cherry-picks with the session opened and closed under them, every
\* backend call returning and every continuation being run.
LiveNext ==
  \/ \E d \in Dialogs : HandleCherryPick(d)
  \/ \E d \in Dialogs : DialogReopen(d)
  \/ \E d \in Dialogs : CpProgress(d)
  \/ \E p \in OpenPaths : OpenRepository(p)
  \/ CloseRepository

LiveSpec ==
  Init /\ [][LiveNext]_vars /\ \A d \in Dialogs : WF_vars(CpProgress(d))

\* The cherry-picks of one dialog with either repository opened while an
\* invocation awaits a backend call.
SwapNext ==
  \/ HandleCherryPick("app")
  \/ DialogReopen("app")
  \/ CpProgress("app")
  \/ \E p \in Repos : OpenRepository(p)

SwapSpec == Init /\ [][SwapNext]_vars

\* The session alone, seen by a caller that keeps the replies: open, init
\* (cut at its await) and close.
SessionNext ==
  \/ \E p \in Paths : OpenRepositoryCall(p)
  \/ \E p \in Repos : InitRepository(p)
  \/ InitDone
  \/ CloseRepositoryCall

SessionSpec == Init /\ [][SessionNext]_vars

\* The service seen by a caller that keeps the replies: the reads and the
\* single-call operations on one repository whose files change underneath.
ApiNext ==
  \/ \E p \in OpenPaths : OpenRepositoryCall(p)
  \/ CloseRepositoryCall
  \/ WorkingTreeChanges
  \/ GetStatus
  \/ GetBranches
  \/ GetCommits
  \/ GetCurrentRepository
  \/ AddFilesCall
  \/ \E m \in Messages : CommitCall(m)
  \/ \E m \in Messages : HandleCommit(m)
  \/ \E b \in Branches : CreateBranchCall(b)
  \/ \E b \in Branches : CheckoutBranchCall(b)
  \/ \E b \in Branches : MergeBranchCall(b)
  \/ \E b \in Branches : RebaseBranchCall(b)

ApiSpec == Init /\ [][ApiNext]_vars

\* The diff summarizer alone: any patch of up to MaxLines lines is handed to
\* parseDiff.
ParseInit ==
  /\ git = NULL
  /\ currentPath = NULL
  /\ initPending = NULL
  /\ head = [r \in Repos |-> "main"]
  /\ wt = [r \in Repos |-> CleanTree]
  /\ isCherryPickingInProgress = FALSE
  /\ dlg = [d \in Dialogs |-> IdleDlg]
  /\ cp = [d \in Dialogs |-> IdleCp]
  /\ \E p \in Patches :
       reply = [op |-> "parseDiff", arg |-> p, on |-> NULL,
                outcome |-> "pending", value |-> "undefined"]

ParseNext == ParseDiffReturns

ParseSpec == ParseInit /\ [][ParseNext]_vars

\* Discovery alone: any list of up to MaxScanPaths scan paths on any of the
\* directory trees.
DiscoverInit ==
  /\ git = NULL
  /\ currentPath = NULL
  /\ initPending = NULL
  /\ head = [r \in Repos |-> "main"]
  /\ wt = [r \in Repos |-> CleanTree]
  /\ isCherryPickingInProgress = FALSE
  /\ dlg = [d \in Dialogs |-> IdleDlg]
  /\ cp = [d \in Dialogs |-> IdleCp]
  /\ \E fs \in FileSystems, sp \in ScanPathLists :
       reply = [op |-> "discoverRepositories",
                arg |-> [fs |-> fs, scanPaths |-> sp], on |-> NULL,
                outcome |-> "pending", value |-> "undefined"]

DiscoverNext == DiscoverReturns

DiscoverSpec == DiscoverInit /\ [][DiscoverNext]_vars

\* Loading a page of commits with diffs while repositories are opened and
\* closed.
DiffsNext ==
  \/ \E p \in Paths : OpenRepository(p)
  \/ CloseRepository
  \/ GetCommitsLog
  \/ GetCommitsShow

DiffsSpec == Init /\ [][DiffsNext]_vars

\* getCommits alone, on an open repository: any history, any limit and skip.
PageInit ==
  /\ git = "r1"
  /\ currentPath = "r1"
  /\ initPending = NULL
  /\ head = [r \in Repos |-> "main"]
  /\ wt = [r \in Repos |-> CleanTree]
  /\ isCherryPickingInProgress = FALSE
  /\ dlg = [d \in Dialogs |-> IdleDlg]
  /\ cp = [d \in Dialogs |-> IdleCp]
  /\ \E h \in Histories, l \in OptionalNumbers, k \in OptionalNumbers :
       reply = [op |-> "getCommits",
                arg |-> [history |-> h, options |-> [limit |-> l, skip |-> k]],
                on |-> "r1", outcome |-> "pending", value |-> <<>>]

PageNext == GetCommitsPage

PageSpec == PageInit /\ [][PageNext]_vars

\* ================================================================= claims
\* What an invocation's call trace says.
Applies(c) == SelectSeq(c.trace, LAMBDA e : e.op = "cherry-pick")
AppliedOk(c) == SelectSeq(c.trace, LAMBDA e : e.op = "cherry-pick" /\ e.ok)
Args(q) == [k \in 1..Len(q) |-> q[k].arg]
Elems(q) == {q[k] : k \in 1..Len(q)}
Count(q, P(_)) == Cardinality({k \in 1..Len(q) : P(q[k])})
Ret(d) == cp[d].pc = "returned"
\* The step in which the invocation returns its result.
Returns(d) == cp[d].pc # "returned" /\ cp'[d].pc = "returned"
\* The invocation went past the no-session early return.
Entered(c) == c.trace # <<>>
\* Positions of the trace: the target checkout, when there is one, is the
\* entry right after the branch read.
HasTargetCheckout(c) ==
  Len(c.trace) >= 2 /\ c.trace[2].op = "checkout" /\ c.trace[2].arg = c.target
     /\ c.currentBranch # c.target
RestoreAttempts(c) ==
  {k \in 3..Len(c.trace) : c.trace[k].op = "checkout"}

\* C1: in every state of every invocation, appliedCommits is a prefix of the
\* requested list, it is exactly the hashes whose apply call succeeded, the
\* applies were issued in request order, and no apply follows a failed one.
C1_AppliedIsSucceededPrefix ==
  \A d \in Dialogs :
    LET c == cp[d]
        a == Applies(c)
    IN /\ IsPrefix(c.result.appliedCommits, c.hashes)
       /\ c.result.appliedCommits = Args(AppliedOk(c))
       /\ IsPrefix(Args(a), c.hashes)
       /\ \A k \in 1..Len(a) : ~a[k].ok => k = Len(a)

\* C1 witness: a returned call whose first commit landed and whose second failed.
C1_Witness ==
  \E d \in Dialogs :
    /\ Ret(d)
    /\ Len(cp[d].hashes) = 2
    /\ cp[d].result.appliedCommits = <<cp[d].hashes[1]>>
    /\ Len(Applies(cp[d])) = 2

\* C2: when the status read after a failed apply lists a staged or unstaged
\* path, success is false, conflicts holds exactly those unstaged and staged
\* paths, and no apply call follows.
C2_ConflictStopsTheLoop ==
  \A d \in Dialogs :
    LET c == cp[d]
    IN \A k \in 1..Len(c.trace) :
         LET e == c.trace[k]
         IN (e.op = "status" /\ (e.st.staged # <<>> \/ e.st.unstaged # <<>>)) =>
              /\ k > 1 /\ c.trace[k - 1].op = "cherry-pick" /\ ~c.trace[k - 1].ok
              /\ ~c.result.success
              /\ c.result.conflicts = e.st.unstaged \o e.st.staged
              /\ \A j \in (k + 1)..Len(c.trace) : c.trace[j].op # "cherry-pick"
              /\ c.pc # "apply"

\* C2 witness: the first of two commits conflicted on unstaged paths only and
\* the call returned.
C2_Witness ==
  \E d \in Dialogs :
    /\ Ret(d)
    /\ Len(cp[d].hashes) = 2
    /\ cp[d].result.conflicts = <<"b", "d">>
    /\ cp[d].result.appliedCommits = <<>>

\* C3 (as claimed): when a call with a target other than the branch that was
\* checked out at the start returns, the original branch is checked out
\* again.  (Stated for the calls that kept their handle throughout.)
C3_OriginalBranchRestored ==
  [][\A d \in Dialogs :
       LET c == cp'[d]
       IN (Returns(d) /\ Entered(c) /\ c.trace[1].ok
             /\ c.currentBranch # c.target
             /\ \A k \in 1..Len(c.trace) : c.trace[k].on # NULL) =>
            head'[c.trace[1].on] = c.currentBranch]_vars

\* C3 (amended): such a call ends with one attempt to check the original
\* branch out, and when that checkout succeeds the repository it ran against
\* is on the original branch as the call returns.
C3_RestoredWhenRestoreSucceeds ==
  [][\A d \in Dialogs :
       LET c == cp'[d]
           n == Len(c.trace)
       IN (Returns(d) /\ Entered(c) /\ c.currentBranch # c.target) =>
            /\ n > 2
            /\ c.trace[n].op = "checkout"
            /\ c.trace[n].arg = c.currentBranch
            /\ c.trace[n].ok => head'[c.trace[n].on] = c.currentBranch]_vars

\* C3 witness: a conflict on the target branch, then a successful restore.
C3_Witness ==
  \E d \in Dialogs :
    LET c == cp[d]
    IN /\ Ret(d)
       /\ c.result.conflicts # <<>>
       /\ HasTargetCheckout(c) /\ c.trace[2].ok
       /\ c.trace[Len(c.trace)].ok
       /\ c.trace[Len(c.trace)].op = "checkout"
       /\ head[c.trace[Len(c.trace)].on] = c.currentBranch

\* C4: once the target checkout has succeeded, the call evaluates the restore
\* checkout of the original branch exactly once before it returns, whatever
\* the applies and the squash commit did.
C4_RestoreAttemptedOnce ==
  \A d \in Dialogs :
    LET c == cp[d]
    IN /\ (Ret(d) /\ HasTargetCheckout(c) /\ c.trace[2].ok) =>
            /\ Cardinality(RestoreAttempts(c)) = 1
            /\ RestoreAttempts(c) = {Len(c.trace)}
            /\ c.trace[Len(c.trace)].arg = c.currentBranch
       /\ Cardinality(RestoreAttempts(c)) <= 1

\* C4 witness: the switch succeeded, an apply failed with a clean status (the
\* thrown-error outcome), and the restore was attempted.
C4_Witness ==
  \E d \in Dialogs :
    LET c == cp[d]
    IN /\ Ret(d)
       /\ HasTargetCheckout(c) /\ c.trace[2].ok
       /\ \E k \in 1..Len(c.trace) : c.trace[k].op = "status"
       /\ c.result.conflicts = <<>>
       /\ ~c.result.success
       /\ Cardinality(RestoreAttempts(c)) = 1

\* C5: at most one dialog has a cherryPickCommits invocation that has not yet
\* been received back, and the lock is held exactly while there is one.
InFlight == {d \in Dialogs : cp[d].pc # "idle"}

C5_SingleFlight ==
  /\ Cardinality(InFlight) <= 1
  /\ isCherryPickingInProgress <=> InFlight # {}
  /\ \A d \in Dialogs : dlg[d].loading <=> d \in InFlight

\* C5 witness: one dialog's cherry-pick is applying while another dialog's
\* click has been dropped.
C5_Witness ==
  \E d, e \in Dialogs :
    /\ d # e
    /\ cp[d].pc = "apply"
    /\ dlg[e].ignored
    /\ cp[e].pc = "idle"

Dropped(d) == ~dlg[d].ignored /\ dlg'[d].ignored

MidFlight(d) == cp[d].pc \in {"checkout", "apply", "status", "squash", "restore"}

OtherMutatingCall ==
  /\ git # NULL
  /\ \/ AddFiles
     \/ Commit
     \/ \E b \in Branches : CreateBranch(b)
     \/ \E b \in Branches : CheckoutBranch(b)
     \/ \E b \in Branches : MergeBranch(b)
     \/ \E b \in Branches : RebaseBranch(b)

C7_SessionAccessSerialized ==
  [][(\E d \in Dialogs : MidFlight(d)) => ~OtherMutatingCall]_vars

\* C8 (as claimed): a returned call with squash and without noCommit whose two
\* or more commits all applied has created exactly one commit on the target
\* branch and lists every requested hash.
CommitsOn(c, b) == Count(c.trace, LAMBDA e : e.commitOn = b)

C8_SquashLeavesOneCommit ==
  \A d \in Dialogs :
    LET c == cp[d]
    IN (Ret(d) /\ c.squash /\ ~c.noCommit /\ Len(c.hashes) >= 2
          /\ Len(AppliedOk(c)) = Len(c.hashes)) =>
         /\ CommitsOn(c, c.target) = 1
         /\ c.result.appliedCommits = c.hashes

\* C9 (as claimed): a failed result names its failure: a branch error when the
\* target checkout failed, a conflict when conflicts is non-empty, a git error
\* when an apply failed on a clean status.  (Stated for the calls that kept
\* their handle throughout.)
C9_FailureCarriesErrorKind ==
  \A d \in Dialogs :
    LET c == cp[d]
    IN (Ret(d) /\ Entered(c) /\ ~c.result.success
          /\ \A k \in 1..Len(c.trace) : c.trace[k].on # NULL) =>
         /\ c.result.errorType # "none"
         /\ (HasTargetCheckout(c) /\ ~c.trace[2].ok) =>
              c.result.errorType = "branch_error"
         /\ c.result.conflicts # <<>> => c.result.errorType = "conflict"
         /\ (\E k \in 1..Len(c.trace) :
               c.trace[k].op = "status" /\ c.result.conflicts = <<>>) =>
              c.result.errorType = "git_error"

\* C10 (as claimed): after a failed checkout of the target branch the call
\* issues no apply, no squash commit and no checkout of the original branch.
C10_NothingAfterFailedCheckout ==
  \A d \in Dialogs :
    LET c == cp[d]
    IN (HasTargetCheckout(c) /\ c.trace[2].on # NULL /\ ~c.trace[2].ok) =>
         \A k \in 3..Len(c.trace) :
           c.trace[k].op \notin {"cherry-pick", "commit", "checkout"}

\* C11: the step in which the restore checkout completes leaves success,
\* appliedCommits and conflicts of the result as they were before it, whether
\* the checkout succeeded or failed.
RestoreCompletes(d) == cp[d].pc = "restore" /\ cp'[d].pc = "returned"

RestoreFailed(c) ==
  /\ c.pc = "returned"
  /\ Len(c.trace) > 2
  /\ c.trace[Len(c.trace)].op = "checkout"
  /\ c.trace[Len(c.trace)].arg = c.currentBranch
  /\ c.trace[Len(c.trace)].on # NULL
  /\ ~c.trace[Len(c.trace)].ok

C11_RestoreFailureKeepsResult ==
  [][\A d \in Dialogs :
       RestoreCompletes(d) =>
         /\ cp'[d].result.success = cp[d].result.success
         /\ cp'[d].result.appliedCommits = cp[d].result.appliedCommits
         /\ cp'[d].result.conflicts = cp[d].result.conflicts]_vars

\* C11 witness: a call that applied its commit, failed to restore the
\* original branch and still returned success.
C11_Witness ==
  \E d \in Dialogs :
    /\ RestoreFailed(cp[d])
    /\ cp[d].result.success
    /\ cp[d].result.appliedCommits # <<>>

\* C12 (as claimed): a returned call whose restore checkout failed carries an
\* error in its result, also when the cherry-pick itself succeeded.
C12_RestoreFailureReported ==
  \A d \in Dialogs :
    (RestoreFailed(cp[d]) /\ cp[d].result.success) =>
      cp[d].result.errorType # "none"

\* C13 (as claimed): every path the status step puts into conflicts is a path
\* the backend lists as being in merge conflict at that moment.
C13_ConflictsAreConflictedPaths ==
  [][\A d \in Dialogs :
       (cp[d].pc = "status" /\ cp'[d].pc # "status") =>
         Elems(cp'[d].result.conflicts) \subseteq
           Elems(wt[cp[d].on].conflicted)]_vars

\* C14 (as claimed): an openRepository call that returns false leaves the
\* handle and the path of the session as they were.
C14_FailedOpenKeepsSession ==
  [][\A p \in Paths :
       (OpenRepositoryCall(p) /\ reply'.value = FALSE) =>
         UNCHANGED <<git, currentPath>>]_vars

\* C15 (as claimed): whenever no session call is in flight, the handle is
\* absent exactly when the current path is absent, and a handle that is
\* present is bound to the current path.
C15_SessionConsistent ==
  initPending = NULL =>
    /\ git = NULL <=> currentPath = NULL
    /\ git # NULL => git = currentPath

\* C20: whenever closeRepository is the call that completed last, no session
\* is open and the call returned normally, whether it was made with a session
\* open or, as the second of two calls in a row, with none.
C20_CloseIsIdempotent ==
  (reply.op = "closeRepository" /\ initPending = NULL) =>
    /\ git = NULL
    /\ currentPath = NULL
    /\ reply.value = "undefined"

\* C20 witness: closeRepository completed on a service that had no session.
C20_Witness ==
  /\ reply.op = "closeRepository"
  /\ reply.on = NULL
  /\ git = NULL
  /\ currentPath = NULL
  /\ initPending = NULL

\* C16: a read that found no session issued no backend call, did not fail,
\* and returned its empty value: the empty status, [], [] and null.
C16_ReadsWithoutSession ==
  (reply.on = NULL
     /\ reply.op \in {"getStatus", "getBranches", "getCommits",
                      "getCurrentRepository"}) =>
    /\ reply.outcome = "none"
    /\ reply.op = "getStatus" => reply.value = EmptyStatus
    /\ reply.op = "getBranches" => reply.value = <<>>
    /\ reply.op = "getCommits" => reply.value = <<>>
    /\ reply.op = "getCurrentRepository" => reply.value = NULL

\* C16 witness: the session of a repository with changed files was closed and
\* getStatus then returned the empty status.
C16_Witness ==
  /\ reply.op = "getStatus"
  /\ reply.on = NULL
  /\ git = NULL
  /\ wt["r1"].modified # <<>>

\* C17: no path is both in staged and in unstaged of a status returned by
\* getStatus, directly or inside the descriptor of getCurrentRepository.
Disjoint(st) == Elems(st.staged) \cap Elems(st.unstaged) = {}

C17_StagedUnstagedDisjoint ==
  /\ reply.op = "getStatus" => Disjoint(reply.value)
  /\ (reply.op = "getCurrentRepository" /\ reply.outcome = "ok") =>
       Disjoint(reply.value.status)

\* C17 witness: the backend lists "a" as staged, modified and deleted and "b"
\* as modified; getStatus returned "a" staged and only "b" unstaged.
C17_Witness ==
  /\ reply.op = "getStatus"
  /\ reply.outcome = "ok"
  /\ wt[reply.on].staged = <<"a">>
  /\ wt[reply.on].modified = <<"a", "b">>
  /\ wt[reply.on].deleted = <<"a">>
  /\ reply.value.staged = <<"a">>
  /\ reply.value.unstaged = <<"b">>

\* C18 (as claimed): commit called on an open session with a message that is
\* blank after trimming issues no backend call and returns an error of its
\* own, not the true/false of a backend commit.
C18_BlankMessageRejected ==
  (reply.op = "commit" /\ reply.on # NULL /\ Trim(reply.arg) = <<>>) =>
    /\ reply.outcome = "none"
    /\ reply.value \notin BOOLEAN

\* C19 (as claimed): two merges, or two rebases, in a row that failed in
\* different ways - one aborted cleanly, one left conflicts in the working
\* tree - returned different values.
FailureOutcomes == {"aborted", "conflicted"}

C19_FailuresDistinguishable ==
  [][(/\ reply.op \in {"mergeBranch", "rebaseBranch"}
      /\ reply'.op = reply.op
      /\ reply.outcome \in FailureOutcomes
      /\ reply'.outcome \in FailureOutcomes
      /\ reply.outcome # reply'.outcome) =>
       reply.value # reply'.value]_vars

\* ---------------------------------------------------------- diff summarizer
\* What a patch says, read off the patch itself.
RECURSIVE Sum(_)
Sum(q) == IF q = <<>> THEN 0 ELSE Head(q) + Sum(Tail(q))

Parsed == reply.op = "parseDiff" /\ reply.outcome = "none"
IsHeader(line) == StartsWith(line, <<"diff --git">>)
IsHunk(line) == StartsWith(line, <<"@@">>)
HeaderAt(p) == {j \in 1..Len(p) : IsHeader(p[j])}
\* The lines of the file block that the header at j begins.
BlockOf(p, j) ==
  {i \in (j + 1)..Len(p) : \A k \in (j + 1)..i : ~IsHeader(p[k])}
\* The lines of that block in front of its first hunk header.
PreambleOf(p, j) ==
  {i \in BlockOf(p, j) : \A k \in (j + 1)..i : ~IsHunk(p[k])}
\* The file name a header line carries behind "b/".
BlockName(line) == IF HeaderMatch(line) THEN line[7] ELSE line[10]

\* C21 (as claimed): the totals of a CommitDiff are the sums over its files.
C21_TotalsAreSums ==
  Parsed =>
    LET files == reply.value.files
    IN /\ reply.value.totalAdditions =
            Sum([k \in DOMAIN files |-> files[k].additions])
       /\ reply.value.totalDeletions =
            Sum([k \in DOMAIN files |-> files[k].deletions])

\* C22 (as claimed): only lines behind a hunk header of their own file block
\* are counted, each once, and never a +++ or --- line: the totals do not
\* exceed the number of such lines.
Countable(p, lead) ==
  {i \in 1..Len(p) :
     /\ StartsWith(p[i], <<lead>>)
     /\ ~StartsWith(p[i], <<lead, lead, lead>>)
     /\ \E j \in HeaderAt(p) : i \in BlockOf(p, j) \ PreambleOf(p, j)}

C22_CountedBehindOwnHunkHeader ==
  Parsed =>
    /\ reply.value.totalAdditions <= Cardinality(Countable(reply.arg, "+"))
    /\ reply.value.totalDeletions <= Cardinality(Countable(reply.arg, "-"))

\* C23 (as claimed): in a patch whose headers all have the plain form, the
\* k-th file's patch text contains every non-empty preamble line of the k-th
\* block.
HeaderIndex(p, k) ==
  CHOOSE j \in HeaderAt(p) : Cardinality({i \in HeaderAt(p) : i <= j}) = k

C23_PreambleRetained ==
  (Parsed /\ \A j \in HeaderAt(reply.arg) : HeaderMatch(reply.arg[j])) =>
    \A k \in 1..Len(reply.value.files) :
      \A i \in PreambleOf(reply.arg, HeaderIndex(reply.arg, k)) :
        reply.arg[i] # <<>> => InSeq(reply.arg[i], reply.value.files[k].patch)

\* C24 (as claimed): the empty patch gives the empty CommitDiff, and every
\* file block without a hunk header has an entry in files with zero counts.
C24_EmptyAndHunklessBlocks ==
  Parsed =>
    /\ reply.arg = <<<<>>>> => reply.value = EmptyDiff
    /\ \A j \in HeaderAt(reply.arg) :
         BlockOf(reply.arg, j) = PreambleOf(reply.arg, j) =>
           \E k \in 1..Len(reply.value.files) :
             /\ reply.value.files[k].filename = BlockName(reply.arg[j])
             /\ reply.value.files[k].additions = 0
             /\ reply.value.files[k].deletions = 0

\* C36 (as claimed): files holds one entry per file block, in input order,
\* under the block's name, and the lines counted in an entry are lines of
\* its own block.
OneEntryPerBlock(p, files) ==
  /\ Len(files) = Cardinality(HeaderAt(p))
  /\ \A k \in 1..Len(files) :
       LET j == HeaderIndex(p, k)
       IN /\ files[k].filename = BlockName(p[j])
          /\ files[k].additions <= Cardinality(Countable(p, "+") \cap BlockOf(p, j))
          /\ files[k].deletions <= Cardinality(Countable(p, "-") \cap BlockOf(p, j))

C36_OneEntryPerBlock == Parsed => OneEntryPerBlock(reply.arg, reply.value.files)

\* The same for the patches whose headers all have the plain form.
C36_OneEntryPerPlainBlock ==
  (Parsed /\ \A j \in HeaderAt(reply.arg) : HeaderMatch(reply.arg[j])) =>
    OneEntryPerBlock(reply.arg, reply.value.files)

\* ---------------------------------------------------------------- discovery
Discovered == reply.op = "discoverRepositories" /\ reply.outcome = "none"

\* What the scans of the scan paths found, before duplicates are removed.
Found == ScanAll(reply.arg.fs, reply.arg.scanPaths)

SamePath(p, q) == LowerPath(p) = LowerPath(q)

\* C25: the output of discoverRepositories holds no two descriptors whose
\* paths are equal up to letter case, and of the descriptors found under one
\* such path it holds the one found first, in the order of first finding.
C25_NoDuplicatePaths ==
  Discovered =>
    /\ \A i, j \in DOMAIN reply.value :
         SamePath(reply.value[i].path, reply.value[j].path) => i = j
    /\ \A k \in DOMAIN Found :
         \E i \in DOMAIN reply.value :
           /\ SamePath(reply.value[i].path, Found[k].path)
           /\ \E f \in DOMAIN Found :
                /\ reply.value[i] = Found[f]
                /\ f <= k
                /\ \A g \in 1..(f - 1) : ~SamePath(Found[g].path, Found[f].path)
    /\ \A i \in DOMAIN reply.value : \E k \in DOMAIN Found : reply.value[i] = Found[k]

\* Two descriptors of one directory under differently spelled paths were
\* found and the first spelling was kept.
C25_Witness ==
  /\ Discovered
  /\ \E f, g \in DOMAIN Found :
       /\ f < g
       /\ SamePath(Found[f].path, Found[g].path)
       /\ Found[f].path # Found[g].path
       /\ \E i \in DOMAIN reply.value : reply.value[i] = Found[f]

IsHidden(name) == name # <<>> /\ name[1] = "."

\* The names of path below the scan path root, when root is a proper prefix.
Below(root, path) == SubSeq(path, Len(root) + 1, Len(path))

\* C26 as claimed: no descriptor's path passes through a hidden
\* subdirectory of a scanned directory.
C26_NoHiddenBelowScanned ==
  Discovered =>
    \A i \in DOMAIN reply.value, k \in DOMAIN reply.arg.scanPaths :
      LET root == reply.arg.scanPaths[k]
          path == reply.value[i].path
      IN IsPrefix(root, path) =>
           \A j \in DOMAIN Below(root, path) : ~IsHidden(Below(root, path)[j])

\* C26 amended: every descriptor was found under some scan path by a chain
\* of subdirectories none of which is hidden; the scan path itself is
\* scanned whatever its name.
C26_NoHiddenBelowItsScanPath ==
  Discovered =>
    \A i \in DOMAIN reply.value :
      \E k \in DOMAIN reply.arg.scanPaths :
        LET root == reply.arg.scanPaths[k]
            path == reply.value[i].path
        IN /\ IsPrefix(root, path)
           /\ \A j \in DOMAIN Below(root, path) : ~IsHidden(Below(root, path)[j])

\* The repository in the hidden directory of the scanned directory w was
\* left out while the repository beside it was found.
C26_Witness ==
  /\ Discovered
  /\ reply.arg.scanPaths = <<(<<NameW>>)>>
  /\ Stat(reply.arg.fs, <<NameW, NameHidden, NameR>>).branchOk
  /\ \E i \in DOMAIN reply.value : reply.value[i].path = <<NameW, NameA>>
  /\ \A i \in DOMAIN reply.value : reply.value[i].path # <<NameW, NameHidden, NameR>>

\* A hidden directory given as a scan path besides its parent is scanned.
C26_HiddenScanPath ==
  /\ Discovered
  /\ \E i \in DOMAIN reply.value, k \in DOMAIN reply.arg.scanPaths :
       /\ reply.arg.scanPaths[k] = <<NameW>>
       /\ reply.value[i].path = <<NameW, NameHidden, NameR>>

\* C27: a scan path that is a readable directory holding the marker is in
\* the output even when its branch cannot be read, then without a current
\* branch.
C27_RecordedWithoutBranch ==
  Discovered =>
    \A k \in DOMAIN reply.arg.scanPaths :
      LET n == Stat(reply.arg.fs, reply.arg.scanPaths[k])
      IN (n.kind = "dir" /\ n.readable /\ InSeq(DotGit, n.items)) =>
           \E i \in DOMAIN reply.value :
             /\ SamePath(reply.value[i].path, reply.arg.scanPaths[k])
             /\ (~n.branchOk => "currentBranch" \notin DOMAIN reply.value[i])

\* The marker directory whose branch could not be read is missing.
C27_Dropped ==
  /\ Discovered
  /\ \E k \in DOMAIN reply.arg.scanPaths :
       LET n == Stat(reply.arg.fs, reply.arg.scanPaths[k])
       IN /\ n.kind = "dir" /\ n.readable /\ InSeq(DotGit, n.items)
          /\ ~n.branchOk
          /\ \A i \in DOMAIN reply.value :
               ~SamePath(reply.value[i].path, reply.arg.scanPaths[k])

\* The readable directories the scan of root gets to: root itself, and the
\* directories that are not hidden entries of a directory it gets to.
Readable(fs, path) == Stat(fs, path).kind = "dir" /\ Stat(fs, path).readable

RECURSIVE ReachedWithin(_, _, _)
ReachedWithin(fs, root, depth) ==
  IF depth = 0
  THEN IF Readable(fs, root) THEN {root} ELSE {}
  ELSE LET dirs == ReachedWithin(fs, root, depth - 1)
       IN dirs \cup
          {Append(d, Stat(fs, d).items[j]) : 
             <<d, j>> \in {<<d, j>> \in dirs \X (1..ScanLimit) :
                /\ j \in DOMAIN Stat(fs, d).items
                /\ ~IsHidden(Stat(fs, d).items[j])
                /\ Readable(fs, Append(d, Stat(fs, d).items[j]))}}

\* C28: discovery returns, and a directory that is missing or cannot be read
\* costs nothing but itself: every repository whose branch can be read, in a
\* readable directory the scan of some scan path gets to, is in the output.
C28_UnreadableSkipped ==
  Discovered =>
    \A k \in DOMAIN reply.arg.scanPaths :
      \A d \in ReachedWithin(reply.arg.fs, reply.arg.scanPaths[k], 3) :
        LET n == Stat(reply.arg.fs, d)
        IN (InSeq(DotGit, n.items) /\ n.branchOk) =>
             \E i \in DOMAIN reply.value : SamePath(reply.value[i].path, d)

\* A missing scan path came before the one under which a repository was
\* found.
C28_Witness ==
  /\ Discovered
  /\ reply.arg.scanPaths = <<(<<NameX>>), (<<NameW>>)>>
  /\ \E i \in DOMAIN reply.value : reply.value[i].path = <<NameW, NameA>>

\* ------------------------------------------------------ commits with diffs
ShowStep ==
  /\ reply.op = "getCommits"
  /\ reply.outcome = "pending"
  /\ reply' # reply

\* C29: in getCommits with includeDiffs, the iteration whose show fails
\* leaves its commit in the page with the empty diff, no iteration removes
\* or alters another commit of the page, and the call goes on to return the
\* page.
C29_DiffFailureIsLocal ==
  [][ShowStep =>
       LET k == reply.arg.next
       IN /\ reply'.op = "getCommits"
          /\ reply'.outcome \in {"pending", "ok"}
          /\ Len(reply'.value) = Len(reply.value)
          /\ \A j \in DOMAIN reply.value :
               /\ reply'.value[j].hash = reply.value[j].hash
               /\ j # k => reply'.value[j] = reply.value[j]
          /\ k \in reply'.arg.failed => reply'.value[k].diff = EmptyDiff
          /\ reply'.outcome = "ok" =>
               [j \in DOMAIN reply'.value |-> reply'.value[j].hash] = LogList]_vars

\* The page was returned with the first commit's diff empty after its load
\* failed and the second commit's diff loaded.
C29_Witness ==
  /\ reply.op = "getCommits"
  /\ reply.outcome = "ok"
  /\ reply.arg.failed = {1}
  /\ reply.value[1].diff = EmptyDiff
  /\ reply.value[2].diff.totalAdditions = 1

\* ------------------------------------------------------------ repeated reads
\* The reply held is that of a read of the session and the working tree as
\* they still are: nothing was mutated since the read.
ReadStillCurrent ==
  /\ reply.op \in {"getStatus", "getBranches"}
  /\ reply.on = git
  /\ (reply.op = "getStatus" /\ reply.outcome = "ok") => reply.value = GetStatusValue("ok")

RepeatedRead ==
  \/ reply.op = "getStatus" /\ GetStatus
  \/ reply.op = "getBranches" /\ GetBranches

SessionAndTreeUnchanged == UNCHANGED <<git, currentPath, head, wt>>

MutatingOps == {"checkout", "cherry-pick", "commit"}

\* C31: no invocation of cherryPickCommits issues a mutating backend call
\* again after it failed, and no requested hash gets more than one apply
\* call; a step of addFiles, commit, createBranch, checkoutBranch,
\* mergeBranch or rebaseBranch is the effect of one backend call on the open
\* repository: it changes the branch or the working tree of that repository
\* only, not both, and starts nothing else.
C31_NoRetry ==
  [][/\ \A d \in Dialogs :
          LET t == cp'[d].trace
          IN /\ \A j, k \in DOMAIN t :
                  (j < k /\ t[j].op \in MutatingOps /\ ~t[j].ok) =>
                    ~(t[k].op = t[j].op /\ t[k].arg = t[j].arg)
             /\ \A j, k \in DOMAIN t :
                  (t[j].op = "cherry-pick" /\ t[k].op = "cherry-pick"
                     /\ t[j].arg = t[k].arg) => j = k
     /\ (AddFiles \/ Commit
           \/ \E b \in Branches :
                CreateBranch(b) \/ CheckoutBranch(b) \/ MergeBranch(b)
                  \/ RebaseBranch(b)) =>
          /\ cp' = cp
          /\ head' = head \/ wt' = wt
          /\ \A r \in Repos \ {git} : head'[r] = head[r] /\ wt'[r] = wt[r]]_vars

\* An apply failed on a clean working tree, the error was thrown on, and the
\* call returned with that one apply call.
C31_Witness ==
  \E d \in Dialogs :
    LET c == cp[d]
    IN /\ Ret(d)
       /\ Len(c.hashes) = 2
       /\ Len(Applies(c)) = 1
       /\ ~Applies(c)[1].ok
       /\ c.result.conflicts = <<>>
       /\ \E k \in DOMAIN c.trace : c.trace[k].op = "status"

\* ---------------------------------------------------------------- liveness
\* C32: a cherry-pick that has been started returns a result to its dialog,
\* whichever backend calls fail, and the lock is free once the dialog has
\* it.
C32_RunsToCompletion ==
  \A d \in Dialogs :
    (cp[d].pc = "invoked") ~>
      (dlg[d].result # <<>> /\ cp[d].pc = "idle" /\ ~isCherryPickingInProgress)

\* A backend call threw after the first commit had been applied, the dialog
\* got the failed result and the lock is free.
C32_Witness ==
  \E d \in Dialogs :
    /\ dlg[d].result # <<>>
    /\ ~dlg[d].result[1].success
    /\ dlg[d].result[1].conflicts = <<>>
    /\ dlg[d].result[1].appliedCommits # <<>>
    /\ ~dlg[d].loading
    /\ ~isCherryPickingInProgress

\* ------------------------------------------------------------- call order
Positions(c, P(_)) == {k \in DOMAIN c.trace : P(c.trace[k])}

\* C33: in the sequence of calls of an invocation the read of the original
\* branch is the first and only one, a checkout of the target is the second
\* entry and so precedes every apply, the applies take the requested hashes
\* in request order, the squash commit follows every apply, and a checkout
\* behind the second entry, the restore, is the last call of the invocation.
C33_CallOrder ==
  \A d \in Dialogs :
    LET c == cp[d]
        applies == Positions(c, LAMBDA e : e.op = "cherry-pick")
        commits == Positions(c, LAMBDA e : e.op = "commit")
        checkouts == Positions(c, LAMBDA e : e.op = "checkout")
    IN /\ Positions(c, LAMBDA e : e.op = "branch") = (IF Entered(c) THEN {1} ELSE {})
       /\ \A k \in checkouts :
            \/ k = 2 /\ c.trace[k].arg = c.target
            \/ /\ k > 2
               /\ c.trace[k].arg = c.currentBranch
               /\ k = Len(c.trace)
               /\ Ret(d)
       /\ (applies # {} /\ c.currentBranch # c.target) => 2 \in checkouts
       /\ IsPrefix(Args(Applies(c)), c.hashes)
       /\ Cardinality(commits) <= 1
       /\ \A k \in commits : \A a \in applies : a < k
       /\ \A k \in commits :
            \A j \in (k + 1)..Len(c.trace) : c.trace[j].op = "checkout"

\* A returned invocation that made every kind of call: branch read, target
\* checkout, two applies, squash commit, restore checkout.
C33_Witness ==
  \E d \in Dialogs :
    LET c == cp[d]
    IN /\ Ret(d)
       /\ Len(c.trace) = 6
       /\ [k \in 1..6 |-> c.trace[k].op]
            = <<"branch", "checkout", "cherry-pick", "cherry-pick", "commit",
                "checkout">>
       /\ \A k \in 1..6 : c.trace[k].ok

\* ------------------------------------------------------------------ squash
SquashCalls(c) == Positions(c, LAMBDA e : e.op = "commit")

\* C34: an invocation that has returned made the squash commit call exactly
\* when squash was requested, noCommit was not, more than one commit was
\* applied and every requested commit was; no invocation makes it twice, and
\* none makes it after a failed apply.
C34_SquashIffAllApplied ==
  \A d \in Dialogs :
    LET c == cp[d]
    IN /\ Ret(d) =>
            (SquashCalls(c) # {} <=>
               /\ c.squash
               /\ ~c.noCommit
               /\ Len(AppliedOk(c)) > 1
               /\ Args(AppliedOk(c)) = c.hashes)
       /\ Cardinality(SquashCalls(c)) <= 1
       /\ \A k \in SquashCalls(c) :
            \A j \in 1..k : c.trace[j].op = "cherry-pick" => c.trace[j].ok
       /\ \A k \in SquashCalls(c) : c.result.conflicts = <<>>

\* Squash was requested and the second of two commits conflicted: the call
\* returned without a squash commit.
C34_NoSquashAfterConflict ==
  \E d \in Dialogs :
    LET c == cp[d]
    IN /\ Ret(d)
       /\ c.squash /\ ~c.noCommit
       /\ Len(c.hashes) = 2
       /\ Len(AppliedOk(c)) = 1
       /\ c.result.conflicts # <<>>
       /\ SquashCalls(c) = {}

\* Squash was requested, both commits were applied and the squash commit was
\* made.
C34_Witness ==
  \E d \in Dialogs :
    LET c == cp[d]
    IN /\ Ret(d)
       /\ Len(AppliedOk(c)) = 2
       /\ SquashCalls(c) # {}

\* ------------------------------------------------------------------ paging
\* The window of a history that starts at offset skip and holds at most
\* limit commits.
Window(history, skip, limit) ==
  [k \in 1..(IF Len(history) - skip < limit
             THEN (IF Len(history) < skip THEN 0 ELSE Len(history) - skip)
             ELSE limit) |-> history[skip + k]]

\* C35: for every skip >= 0 and limit >= 0 given, the page getCommits returns
\* when the log succeeds is the window of the backend's history at offset
\* skip with at most limit commits, in the backend's order.
C35_PageIsWindow ==
  (reply.op = "getCommits" /\ reply.outcome = "ok"
     /\ reply.arg.options.limit # <<>> /\ reply.arg.options.skip # <<>>) =>
    reply.value = Window(reply.arg.history, reply.arg.options.skip[1],
                         reply.arg.options.limit[1])

\* The same for the limits above zero, where it holds.
C35_PageIsWindowForPositiveLimit ==
  (reply.op = "getCommits" /\ reply.outcome = "ok"
     /\ Truthy(reply.arg.options.limit) /\ reply.arg.options.skip # <<>>) =>
    reply.value = Window(reply.arg.history, reply.arg.options.skip[1],
                         reply.arg.options.limit[1])

\* ------------------------------------------------------- result consistency
\* C37: the result an invocation returns has success only with no conflicts
\* and every requested hash applied, has conflicts only without success, and
\* an invocation that finds no session returns at once, without a backend
\* call, success false and both lists empty.
C37_ResultConsistent ==
  [][\A d \in Dialogs :
       /\ Returns(d) =>
            LET r == cp'[d].result
            IN /\ r.success =>
                    (r.conflicts = <<>> /\ r.appliedCommits = cp'[d].hashes)
               /\ r.conflicts # <<>> => ~r.success
       /\ (cp[d].pc = "invoked" /\ git = NULL /\ cp'[d] # cp[d]) =>
            /\ cp'[d].pc = "returned"
            /\ cp'[d].trace = <<>>
            /\ cp'[d].result.success = FALSE
            /\ cp'[d].result.conflicts = <<>>
            /\ cp'[d].result.appliedCommits = <<>>]_vars

\* A returned result with conflicts and one commit applied.
C37_Witness ==
  \E d \in Dialogs :
    /\ Ret(d)
    /\ cp[d].result.conflicts # <<>>
    /\ Len(cp[d].result.appliedCommits) = 1
    /\ ~cp[d].result.success

\* An invocation found no session and returned the empty failure.
C37_NoSession ==
  \E d \in Dialogs :
    /\ Ret(d)
    /\ cp[d].trace = <<>>
    /\ ~cp[d].result.success

\* ------------------------------------------------------- one repository
\* C38 (as claimed): every backend call of an invocation runs against the
\* repository its first call, the read of the original branch, ran
\* against, whatever is opened, initialised or closed in between.
C38_CallsOnStartRepository ==
  \A d \in Dialogs :
    \A k \in DOMAIN cp[d].trace :
      cp[d].trace[k].on # NULL => cp[d].trace[k].on = cp[d].trace[1].on

\* ------------------------------------------------------ target is current
Checkouts(c) == Positions(c, LAMBDA e : e.op = "checkout")

\* The step in which the read of the original branch returns to the
\* invocation of d, which asked for the branch its repository is on.
BranchReadOnTarget(d) ==
  /\ cp[d].pc = "branch"
  /\ cp'[d] # cp[d]
  /\ head[cp[d].on] = cp[d].target

\* C39 (as claimed): an invocation whose target is the branch checked out
\* at its start issues no checkout: none when the read of the original
\* branch returns, none later, and its own steps leave the checked-out
\* branch as it is.
C39_NoCheckoutOnTarget ==
  [][\A d \in Dialogs :
       /\ BranchReadOnTarget(d) =>
            (cp'[d].pc # "checkout" /\ Checkouts(cp'[d]) = {})
       /\ (Entered(cp[d]) /\ cp[d].currentBranch = cp[d].target) =>
            /\ cp'[d].pc \notin {"checkout", "restore"}
            /\ Checkouts(cp'[d]) = {}
            /\ cp'[d] # cp[d] => head' = head]_vars

\* The same for the invocations whose read of the original branch returned
\* the target.
C39_NoCheckoutWhenReadGivesTarget ==
  [][\A d \in Dialogs :
       /\ (BranchReadOnTarget(d) /\ cp'[d].trace[1].ok) =>
            (cp'[d].pc # "checkout" /\ Checkouts(cp'[d]) = {})
       /\ (Entered(cp[d]) /\ cp[d].currentBranch = cp[d].target) =>
            /\ cp'[d].pc \notin {"checkout", "restore"}
            /\ Checkouts(cp'[d]) = {}
            /\ cp'[d] # cp[d] => head' = head]_vars

\* ------------------------------------------------- mutating without session
MutatingCall ==
  \/ AddFilesCall
  \/ \E m \in Messages : CommitCall(m)
  \/ \E b \in Branches :
       \/ CreateBranchCall(b)
       \/ CheckoutBranchCall(b)
       \/ MergeBranchCall(b)
       \/ RebaseBranchCall(b)

\* C40: addFiles, commit, createBranch, checkoutBranch, mergeBranch and
\* rebaseBranch called with no open session return false, issue no backend
\* call, and leave the session and the repositories as they are.
C40_MutatingWithoutSession ==
  [][(git = NULL /\ MutatingCall) =>
       /\ reply'.value = FALSE
       /\ reply'.outcome = "none"
       /\ reply'.on = NULL
       /\ UNCHANGED <<git, currentPath, head, wt>>]_vars

\* The session of a repository was closed and mergeBranch then returned
\* false without a backend call.
C40_Witness ==
  /\ git = NULL
  /\ currentPath = NULL
  /\ reply.op = "mergeBranch"
  /\ reply.on = NULL
  /\ reply.outcome = "none"
  /\ reply.value = FALSE
  /\ wt["r1"] # CleanTree

====
